---- MODULE Spec2Model ----
(***************************************************************************)
(* A model of the three scripts of pruning-er:                             *)
(*   scripts/responses.py     the OpenRouter test client (main, its        *)
(*                            helpers and the response parser),            *)
(*   data/prep_s1k_chatml.py  the s1K -> ChatML JSONL converter.           *)
(* Text is a sequence of one-character strings, so that strip, join and    *)
(* str() are computed rather than assumed.                                 *)
(***************************************************************************)
EXTENDS Integers, Sequences, FiniteSets, TLC

\* ------------------------------------------------------------------ bounds
\* Longest text drawn for a dataset field.
MaxLen == 2
\* Longest message-level reasoning_details list.
MaxFrags == 2
\* Longest top-level reasoning_details list.
MaxTopFrags == 1
\* Most rows in the dataset handed to the converter.
MaxRows == 2
\* Most lines in the JSONL file the client reads.
MaxLines == 2

\* ------------------------------------------------------------------- text
Chars == {" ", "a"}
\* What Python's str.strip() removes (the characters that occur here).
Whitespace == {" ", "\n", "\t"}

TextUpTo(n) == UNION {[1..k -> Chars] : k \in 0..n}

RECURSIVE LStrip(_)
LStrip(s) == IF s /= <<>> /\ Head(s) \in Whitespace THEN LStrip(Tail(s)) ELSE s

RECURSIVE RStrip(_)
RStrip(s) ==
    IF s /= <<>> /\ s[Len(s)] \in Whitespace
    THEN RStrip(SubSeq(s, 1, Len(s) - 1))
    ELSE s

\* str.strip()
Strip(s) == RStrip(LStrip(s))

\* "\n".join(out)
RECURSIVE JoinNl(_)
JoinNl(out) ==
    IF out = <<>> THEN <<>>
    ELSE IF Len(out) = 1 THEN out[1]
    ELSE out[1] \o <<"\n">> \o JoinNl(Tail(out))

Digit == <<"0", "1", "2", "3", "4", "5", "6", "7", "8", "9">>

\* str(n) of a natural number
RECURSIVE IntStr(_)
IntStr(n) ==
    IF n < 10 THEN <<Digit[n + 1]>>
    ELSE IntStr(n \div 10) \o <<Digit[(n % 10) + 1]>>

\* --------------------------------------------------------- JSON scalars
\* A value found under a key of a JSON object: the key may be absent (dict.get
\* gives None), null, a string or a number.
Absent == [kind |-> "absent", s |-> <<>>, n |-> 0]
Null == [kind |-> "null", s |-> <<>>, n |-> 0]
StrVal(t) == [kind |-> "str", s |-> t, n |-> 0]
NumVal(k) == [kind |-> "num", s |-> <<>>, n |-> k]

\* Python truthiness, as `or` and `if not` test it.
Truthy(v) == (v.kind = "str" /\ v.s /= <<>>) \/ (v.kind = "num" /\ v.n /= 0)

\* a or b
PyOr(a, b) == IF Truthy(a) THEN a ELSE b

\* str(v)
PyStr(v) ==
    CASE v.kind = "str" -> v.s
      [] v.kind = "num" -> IntStr(v.n)
      [] OTHER -> <<"N", "o", "n", "e">>

\* ------------------------------------------------ reasoning_details lists
\* One element of a reasoning_details list: an object with a "text" key
\* (a string, null or a number), an object without one, or not an object.
NoDetails == [kind |-> "absent", items |-> <<>>]
NullDetails == [kind |-> "null", items |-> <<>>]
ListDetails(xs) == [kind |-> "list", items |-> xs]

Frag(isdict, text) == [isdict |-> isdict, text |-> text]

Frags ==
    {Frag(TRUE, StrVal(t)) : t \in {<<>>, <<" ">>, <<"a">>}}
        \cup {Frag(TRUE, Absent), Frag(FALSE, Absent)}

DetailsUpTo(n) ==
    {NoDetails, NullDetails}
        \cup {ListDetails(xs) : xs \in UNION {[1..k -> Frags] : k \in 0..n}}

\* The loop of _join_reasoning_details: the texts kept in `out`.
RECURSIVE KeptTexts(_)
KeptTexts(items) ==
    IF items = <<>> THEN <<>>
    ELSE LET d == Head(items)
             t == IF d.isdict THEN d.text ELSE Absent
         IN (IF t.kind = "str" /\ t.s /= <<>> THEN <<t.s>> ELSE <<>>)
                \o KeptTexts(Tail(items))

join_reasoning_details(details) ==
    IF details.kind /= "list" \/ details.items = <<>>
    THEN <<>>
    ELSE Strip(JoinNl(KeptTexts(details.items)))

\* ------------------------------------------------------ response bodies
\* The parts of a Chat Completions response body the client reads:
\*   choices      absent | null | empty (a list of none) | one (a list whose
\*                first element is the choice below)
\*   message      of the first choice: absent | null | obj
\*   reasoning, msg_details, content   the message's keys
\*   top_details  the body's own reasoning_details
\*   usage        absent | null | obj
\*   echoed       whether the body's own "reasoning" or the message's
\*                "metadata" is truthy
Body(ch, m, r, md, c, td, u) ==
    [choices |-> ch, message |-> m, reasoning |-> r, msg_details |-> md,
     content |-> c, top_details |-> td, usage |-> u, echoed |-> FALSE]

\* resp_json before the request has returned.
NoBody == Body("unset", "absent", Absent, NoDetails, Absent, NoDetails, "absent")

ReasoningVals ==
    {Absent, Null, NumVal(0), NumVal(7)}
        \cup {StrVal(t) : t \in {<<>>, <<" ">>, <<"a">>, <<"a", " ">>}}

ContentVals == {Absent, StrVal(<<"a">>)}

\* Bodies without a first choice, bodies whose first choice has no message
\* object, and bodies whose first choice has one.
Bodies ==
    {Body(ch, "absent", Absent, NoDetails, Absent, td, "obj") :
        ch \in {"absent", "null", "empty"}, td \in DetailsUpTo(MaxTopFrags)}
    \cup
    {Body("one", m, Absent, NoDetails, Absent, td, "obj") :
        m \in {"absent", "null"}, td \in DetailsUpTo(MaxTopFrags)}
    \cup
    {Body("one", "obj", r, md, c, td, "obj") :
        r \in ReasoningVals, md \in DetailsUpTo(MaxFrags), c \in ContentVals,
        td \in DetailsUpTo(MaxTopFrags)}

\* resp_json.get("choices") or []  is empty
NoChoices(resp) == resp.choices /= "one"

\* msg = choices[0].get("message", {}) or {} ; msg.get(key)
MsgGet(resp, key) ==
    IF resp.message /= "obj"
    THEN (IF key = "reasoning_details" THEN NoDetails ELSE Absent)
    ELSE CASE key = "reasoning" -> resp.reasoning
           [] key = "reasoning_details" -> resp.msg_details
           [] key = "content" -> resp.content

Parsed(t, a, m) == [thinking |-> t, attempt |-> a, meta |-> m]

\* The chain of `or`s of lines 134-139.
ReasoningChain(resp) ==
    PyOr(PyOr(PyOr(MsgGet(resp, "reasoning"),
                   StrVal(join_reasoning_details(MsgGet(resp, "reasoning_details")))),
              StrVal(join_reasoning_details(resp.top_details))),
         StrVal(<<>>))

\* Faulty variants of extract_reasoning_and_answer: reasoning_details read
\* before message.reasoning; no final default of "".
extract_details_first(resp) ==
    IF NoChoices(resp) THEN Parsed(<<>>, <<>>, "empty")
    ELSE Parsed(
        PyStr(PyOr(PyOr(PyOr(
            StrVal(join_reasoning_details(MsgGet(resp, "reasoning_details"))),
            MsgGet(resp, "reasoning")),
            StrVal(join_reasoning_details(resp.top_details))), StrVal(<<>>))),
        PyStr(PyOr(MsgGet(resp, "content"), StrVal(<<>>))), "meta")

extract_no_default(resp) ==
    IF NoChoices(resp) THEN Parsed(<<>>, <<>>, "empty")
    ELSE Parsed(
        PyStr(PyOr(PyOr(MsgGet(resp, "reasoning"),
                   StrVal(join_reasoning_details(MsgGet(resp, "reasoning_details")))),
              PyOr(StrVal(join_reasoning_details(resp.top_details)), Null))),
        PyStr(PyOr(MsgGet(resp, "content"), StrVal(<<>>))), "meta")

extract_reasoning_and_answer(resp) ==
    IF NoChoices(resp) THEN Parsed(<<>>, <<>>, "empty")
    ELSE Parsed(PyStr(PyOr(ReasoningChain(resp), StrVal(<<>>))),
                PyStr(PyOr(MsgGet(resp, "content"), StrVal(<<>>))),
                "meta")

\* ------------------------------------------- data/prep_s1k_chatml.py
\* Texts of dataset fields: every text up to MaxLen, and two with a line
\* break inside or in front.
DsTexts == TextUpTo(MaxLen) \cup {<<"a", "\n", "a">>, <<"\n", "a", " ">>}

NoTraj == [kind |-> "absent", items |-> <<>>]
NullTraj == [kind |-> "null", items |-> <<>>]
ListTraj(xs) == [kind |-> "list", items |-> xs]

TrajVals ==
    {NoTraj, NullTraj, ListTraj(<<>>)}
        \cup {ListTraj(<<t>>) : t \in DsTexts}
        \cup {ListTraj(<<t, <<"a">>>>) : t \in {<<>>, <<"a", " ">>}}

\* question and attempt of a row (attempt: a string or a number).
QAPairs == {<<<<" ", "a">>, StrVal(<<"a", " ">>)>>, <<<<"a", "a">>, NumVal(4)>>}

DsRow(q, a, tr) == [question |-> q, attempt |-> a, thinking_trajectories |-> tr]

DsRows == {DsRow(qa[1], qa[2], tr) : qa \in QAPairs, tr \in TrajVals}

Datasets == UNION {[1..k -> DsRows] : k \in 0..MaxRows}

Message(role, content) == [role |-> role, content |-> content]

\* Faulty variant: the last trajectory instead of the first.
TraceOfLast(ex) ==
    LET trace_list == IF ex.thinking_trajectories.kind = "list"
                      THEN ex.thinking_trajectories.items
                      ELSE <<>>
    IN Strip(IF trace_list /= <<>> THEN trace_list[Len(trace_list)] ELSE <<>>)

\* Lines 15-16: trace_list = ex.get(...) or [] ; (trace_list[0] if trace_list
\* else "").strip()
TraceOf(ex) ==
    LET trace_list == IF ex.thinking_trajectories.kind = "list"
                      THEN ex.thinking_trajectories.items
                      ELSE <<>>
    IN Strip(IF trace_list /= <<>> THEN trace_list[1] ELSE <<>>)

\* Faulty variant: the think message left out when the trace is empty.
RecordOfSkipEmpty(ex) ==
    [messages |->
        <<Message("user", Strip(ex.question))>>
        \o (IF TraceOf(ex) = <<>> THEN <<>> ELSE <<Message("think", TraceOf(ex))>>)
        \o <<Message("answer", Strip(PyStr(ex.attempt)))>>]

\* Lines 11-25: the object built for one row.
RecordOf(ex) ==
    [messages |->
        <<Message("user", Strip(ex.question)),
          Message("think", TraceOf(ex)),
          Message("answer", Strip(PyStr(ex.attempt)))>>]

\* json.dumps writes a string's characters with the control characters, the
\* quote and the backslash escaped.
EscapeChar(c) ==
    CASE c = "\n" -> <<"\\", "n">>
      [] c = "\t" -> <<"\\", "t">>
      [] c = "\"" -> <<"\\", "\"">>
      [] c = "\\" -> <<"\\", "\\">>
      [] OTHER -> <<c>>

RECURSIVE Escape(_)
Escape(s) == IF s = <<>> THEN <<>> ELSE EscapeChar(Head(s)) \o Escape(Tail(s))

\* json.dumps(obj, ensure_ascii=False): the object with every string encoded.
Dumps(obj) ==
    [messages |->
        [i \in 1..Len(obj.messages) |->
            Message(obj.messages[i].role, Escape(obj.messages[i].content))]]

\* ---------------------------------------------- scripts/responses.py
\* Whole prompts are single tokens of a text.
DefaultQuestion == <<"What is the sum of the first 10 positive integers?">>
SystemPrompt ==
    <<"You are a helpful assistant. You are given a question and you need to answer it.">>

\* A parsed line of the JSONL file (valid = FALSE: json.loads raises on it).
JRow(q, p) == [valid |-> TRUE, question |-> q, prompt |-> p]
BadLine == [valid |-> FALSE, question |-> Absent, prompt |-> Absent]
NoRow == JRow(Absent, Absent)

JRows ==
    {JRow(StrVal(<<"a">>), Absent), JRow(StrVal(<<"a">>), StrVal(<<"b">>)),
     JRow(Absent, StrVal(<<"b">>)), JRow(StrVal(<<>>), Absent), BadLine}

\* The file at --from-jsonl: missing, or its lines.
JsonlFiles ==
    {[exists |-> FALSE, lines |-> <<>>]}
        \cup {[exists |-> TRUE, lines |-> ls] :
                ls \in UNION {[1..k -> JRows] : k \in 0..MaxLines}}

\* The command line: how parse_args ends ("ok", "usage_error": exit 2 with
\* the usage on stderr, "help": exit 0) and the values it gives.
Args(parse, q, f, i, sp) ==
    [parse |-> parse, question |-> q, from_jsonl |-> f, index |-> i,
     show_payload |-> sp]

NoArgs == Args("unparsed", Absent, StrVal(<<>>), 0, FALSE)

CmdLines ==
    {Args("usage_error", Absent, StrVal(<<>>), 0, FALSE),
     Args("help", Absent, StrVal(<<>>), 0, FALSE)}
    \cup
    {Args("ok", q, f, i, sp) :
        q \in {Absent, StrVal(<<>>), StrVal(<<"q">>)},
        f \in {StrVal(<<>>), StrVal(<<"p">>)},
        i \in -1..MaxLines,
        sp \in BOOLEAN}

\* os.environ.get("OPENROUTER_API_KEY")
ApiKeys == {Absent, StrVal(<<>>), StrVal(<<"k">>)}

Loaded(outcome, ex, opened) == [outcome |-> outcome, ex |-> ex, opened |-> opened]

\* Faulty variant: the file is read before the explicit question is looked at.
load_question_file_first(jsonl, from_jsonl, index, fallback_question) ==
    IF Truthy(from_jsonl) /\ jsonl.exists /\ index >= 0 /\ index < Len(jsonl.lines)
          /\ jsonl.lines[index + 1].valid
    THEN Loaded("return", jsonl.lines[index + 1], TRUE)
    ELSE IF Truthy(fallback_question)
    THEN Loaded("return", JRow(fallback_question, Absent), FALSE)
    ELSE Loaded("exit", NoRow, FALSE)

\* Faulty variant: a negative index counts from the end, an index past the end
\* gives an empty row.
load_question_lenient(jsonl, from_jsonl, index, fallback_question) ==
    IF Truthy(fallback_question)
    THEN Loaded("return", JRow(fallback_question, Absent), FALSE)
    ELSE IF ~Truthy(from_jsonl)
    THEN Loaded("return", JRow(StrVal(DefaultQuestion), Absent), FALSE)
    ELSE IF ~jsonl.exists
    THEN Loaded("return", JRow(StrVal(DefaultQuestion), Absent), FALSE)
    ELSE IF index >= 0 /\ index < Len(jsonl.lines)
    THEN (IF jsonl.lines[index + 1].valid
          THEN Loaded("return", jsonl.lines[index + 1], TRUE)
          ELSE Loaded("raise", NoRow, TRUE))
    ELSE Loaded("return", JRow(StrVal(DefaultQuestion), Absent), TRUE)

\* load_question: "return" with the row, "exit" (SystemExit with a message) or
\* "raise" (json.loads fails); opened: whether the file was opened.
load_question(jsonl, from_jsonl, index, fallback_question) ==
    IF Truthy(fallback_question)
    THEN Loaded("return", JRow(fallback_question, Absent), FALSE)
    ELSE IF ~Truthy(from_jsonl)
    THEN Loaded("return", JRow(StrVal(DefaultQuestion), Absent), FALSE)
    ELSE IF ~jsonl.exists
    THEN Loaded("exit", NoRow, FALSE)
    ELSE IF index >= 0 /\ index < Len(jsonl.lines)
    THEN (IF jsonl.lines[index + 1].valid
          THEN Loaded("return", jsonl.lines[index + 1], TRUE)
          ELSE Loaded("raise", NoRow, TRUE))
    ELSE Loaded("exit", NoRow, TRUE)

build_messages(question) ==
    <<Message("system", SystemPrompt),
      Message("user", <<"Question:", "\n">> \o question)>>

\* What requests.post ends with: no response at all (a connection error or a
\* timeout), or a response with a status and a body that is JSON or not.
Statuses == {200, 300, 404, 500}

NoHttp == [kind |-> "none", status |-> 0, is_json |-> FALSE, body |-> NoBody]
NoResponse == [kind |-> "no_response", status |-> 0, is_json |-> FALSE, body |-> NoBody]
Response(st, j, b) == [kind |-> "response", status |-> st, is_json |-> j, body |-> b]

\* Bodies the client is run against: a full answer, one that echoes reasoning
\* metadata, no choices but a top-level reasoning_details, a null message, a
\* null usage.
MainBodies ==
    {Body("one", "obj", StrVal(<<"a">>), NoDetails, StrVal(<<"a">>), NoDetails, "obj"),
     [Body("one", "obj", Absent, ListDetails(<<Frag(TRUE, StrVal(<<"a">>))>>),
           StrVal(<<"a">>), NoDetails, "absent") EXCEPT !.echoed = TRUE],
     Body("empty", "absent", Absent, NoDetails, Absent,
          ListDetails(<<Frag(TRUE, StrVal(<<"a">>))>>), "obj"),
     Body("one", "null", Absent, NoDetails, Absent, NoDetails, "obj"),
     Body("one", "obj", StrVal(<<"a">>), NoDetails, StrVal(<<"a">>), NoDetails, "null")}

HttpOutcomes ==
    {NoResponse}
        \cup {Response(st, FALSE, NoBody) : st \in Statuses}
        \cup {Response(st, TRUE, b) : st \in Statuses, b \in MainBodies}

\* Faulty variant: only server errors raise.
RaisesForStatusServerOnly(st) == st >= 500 /\ st < 600

\* Response.raise_for_status(): an HTTPError for a 4xx or a 5xx status.
RaisesForStatus(st) == st >= 400 /\ st < 600

Called(result, json) == [result |-> result, json |-> json]

\* call_openrouter, given what the POST ends with: "HTTPError" (raised by
\* raise_for_status), "raise" (any other exception: no response, or a body
\* resp.json() cannot parse) or "return" with the parsed body.
call_openrouter(outcome) ==
    IF outcome.kind = "no_response" THEN Called("raise", NoBody)
    ELSE IF RaisesForStatus(outcome.status) THEN Called("HTTPError", NoBody)
    ELSE IF ~outcome.is_json THEN Called("raise", NoBody)
    ELSE Called("return", outcome.body)

\* ------------------------------------------------------------------ state
VARIABLES
    pc,           \* where main is: the step to run next, or "exited"
    cmdline,      \* the command line main is started with
    environ,      \* the value of OPENROUTER_API_KEY
    jsonl,        \* the file at --from-jsonl
    args,         \* the namespace parse_args returned
    ex,           \* the row load_question returned
    question,     \* line 179
    messages,     \* line 183
    posted,       \* the messages of every POST sent, in order
    http,         \* how the POST ended
    resp_json,    \* what call_openrouter returned
    parsed,       \* what extract_reasoning_and_answer returned
    log,          \* what was printed or opened, in order
    exit_status,  \* the exit status once pc = "exited", -1 before
    ds,           \* the dataset the converter iterates
    conv_pc,      \* where the converter is
    conv_i,       \* rows of ds consumed
    out_file      \* the lines of data/s1k-chatml.jsonl

mainVars ==
    <<pc, cmdline, environ, jsonl, args, ex, question, messages, posted, http,
      resp_json, parsed, log, exit_status>>
convVars == <<ds, conv_pc, conv_i, out_file>>
vars == <<mainVars, convVars>>

NoParsed == Parsed(<<>>, <<>>, "unset")

\* The client before main runs, apart from pc and its inputs.
MainIdle ==
    /\ args = NoArgs
    /\ ex = NoRow
    /\ question = Absent
    /\ messages = <<>>
    /\ posted = <<>>
    /\ http = NoHttp
    /\ resp_json = NoBody
    /\ parsed = NoParsed
    /\ log = <<>>
    /\ exit_status = -1

ConvIdle ==
    /\ ds = <<>>
    /\ conv_pc = "idle"
    /\ conv_i = 0
    /\ out_file = <<>>

\* ------------------------------------------------------------ main, steps
Exit(status, event) ==
    /\ pc' = "exited"
    /\ exit_status' = status
    /\ log' = Append(log, event)

\* Line 171: args = ap.parse_args()
ParseArgs ==
    /\ pc = "parse_args"
    /\ \/ /\ cmdline.parse = "usage_error"
          /\ Exit(2, "stderr_usage")
          /\ UNCHANGED args
       \/ /\ cmdline.parse = "help"
          /\ Exit(0, "print_help")
          /\ UNCHANGED args
       \/ /\ cmdline.parse = "ok"
          /\ args' = cmdline
          /\ pc' = "check_key"
          /\ UNCHANGED <<log, exit_status>>
    /\ UNCHANGED <<cmdline, environ, jsonl, ex, question, messages, posted, http,
                   resp_json, parsed, convVars>>

\* Faulty variant: the missing key is reported with SystemExit(message), whose
\* exit status is 1.
CheckKeyExitOne ==
    /\ pc = "check_key"
    /\ \/ /\ ~Truthy(environ)
          /\ Exit(1, "stderr_missing_key")
       \/ /\ Truthy(environ)
          /\ pc' = "load_question"
          /\ UNCHANGED <<log, exit_status>>
    /\ UNCHANGED <<cmdline, environ, jsonl, args, ex, question, messages, posted,
                   http, resp_json, parsed, convVars>>

\* Faulty variant: the key is looked at only when the request is built, so the
\* question is loaded first.
CheckKeyLate ==
    /\ pc = "check_key"
    /\ pc' = "load_question"
    /\ UNCHANGED <<log, exit_status>>
    /\ UNCHANGED <<cmdline, environ, jsonl, args, ex, question, messages, posted,
                   http, resp_json, parsed, convVars>>

\* Lines 173-176
CheckKey ==
    /\ pc = "check_key"
    /\ \/ /\ ~Truthy(environ)
          /\ Exit(2, "stderr_missing_key")
       \/ /\ Truthy(environ)
          /\ pc' = "load_question"
          /\ UNCHANGED <<log, exit_status>>
    /\ UNCHANGED <<cmdline, environ, jsonl, args, ex, question, messages, posted,
                   http, resp_json, parsed, convVars>>

\* Line 178: ex = load_question(args.from_jsonl, args.index, args.question)
LoadQuestion ==
    /\ pc = "load_question"
    /\ LET r == load_question(jsonl, args.from_jsonl, args.index, args.question)
           opened == IF r.opened THEN <<"open_jsonl">> ELSE <<>>
       IN \/ /\ r.outcome = "return"
             /\ ex' = r.ex
             /\ pc' = "pick_question"
             /\ log' = log \o opened
             /\ UNCHANGED exit_status
          \/ /\ r.outcome = "exit"
             /\ pc' = "exited"
             /\ exit_status' = 1
             /\ log' = log \o opened \o <<"stderr_exit_message">>
             /\ UNCHANGED ex
          \/ /\ r.outcome = "raise"
             /\ pc' = "exited"
             /\ exit_status' = 1
             /\ log' = log \o opened \o <<"stderr_traceback">>
             /\ UNCHANGED ex
    /\ UNCHANGED <<cmdline, environ, jsonl, args, question, messages, posted, http,
                   resp_json, parsed, convVars>>

\* Lines 179-181
PickQuestion ==
    /\ pc = "pick_question"
    /\ LET q == PyOr(PyOr(ex.question, ex.prompt), args.question)
       IN \/ /\ ~Truthy(q)
             /\ Exit(1, "stderr_exit_message")
             /\ UNCHANGED question
          \/ /\ Truthy(q)
             /\ question' = q
             /\ pc' = "build_messages"
             /\ UNCHANGED <<log, exit_status>>
    /\ UNCHANGED <<cmdline, environ, jsonl, args, ex, messages, posted, http,
                   resp_json, parsed, convVars>>

\* Lines 183-186
BuildMessages ==
    /\ pc = "build_messages"
    /\ messages' = build_messages(PyStr(question))
    /\ pc' = "show_payload"
    /\ UNCHANGED <<cmdline, environ, jsonl, args, ex, question, posted, http,
                   resp_json, parsed, log, exit_status, convVars>>

\* Lines 188-199
ShowPayload ==
    /\ pc = "show_payload"
    /\ \/ /\ args.show_payload
          /\ log' = Append(log, "print_payload")
       \/ /\ ~args.show_payload
          /\ UNCHANGED log
    /\ pc' = "send"
    /\ UNCHANGED <<cmdline, environ, jsonl, args, ex, question, messages, posted,
                   http, resp_json, parsed, exit_status, convVars>>

\* Lines 201-214: the print, and call_openrouter with what the POST ends with.
SendRequest ==
    /\ pc = "send"
    /\ \E outcome \in HttpOutcomes :
          LET r == call_openrouter(outcome)
              sent == log \o <<"print_sending", "http_post">>
          IN /\ http' = outcome
             /\ posted' = Append(posted, messages)
             /\ \/ /\ r.result = "HTTPError"
                   /\ pc' = "http_error"
                   /\ log' = sent
                   /\ UNCHANGED <<resp_json, exit_status>>
                \/ /\ r.result = "raise"
                   /\ pc' = "exited"
                   /\ exit_status' = 1
                   /\ log' = sent \o <<"stderr_traceback">>
                   /\ UNCHANGED resp_json
                \/ /\ r.result = "return"
                   /\ resp_json' = r.json
                   /\ pc' = "print_raw"
                   /\ log' = sent
                   /\ UNCHANGED exit_status
    /\ UNCHANGED <<cmdline, environ, jsonl, args, ex, question, messages, parsed,
                   convVars>>

\* Faulty variant of the except clause: the request is sent again.
HandleHTTPErrorRetry ==
    /\ pc = "http_error"
    /\ Len(posted) < 2
    /\ pc' = "send"
    /\ log' = Append(log, "stderr_http_error")
    /\ UNCHANGED <<cmdline, environ, jsonl, args, ex, question, messages, posted,
                   http, resp_json, parsed, exit_status, convVars>>

\* Lines 215-222: the except clause.
HandleHTTPError ==
    /\ pc = "http_error"
    /\ Exit(1, "stderr_http_error")
    /\ UNCHANGED <<cmdline, environ, jsonl, args, ex, question, messages, posted,
                   http, resp_json, parsed, convVars>>

\* Lines 224-225
PrintRaw ==
    /\ pc = "print_raw"
    /\ log' = Append(log, "print_raw")
    /\ pc' = "extract"
    /\ UNCHANGED <<cmdline, environ, jsonl, args, ex, question, messages, posted,
                   http, resp_json, parsed, exit_status, convVars>>

\* Lines 227-234
ExtractAndPrint ==
    /\ pc = "extract"
    /\ parsed' = extract_reasoning_and_answer(resp_json)
    /\ log' = Append(log, "print_parsed")
    /\ pc' = "print_usage"
    /\ UNCHANGED <<cmdline, environ, jsonl, args, ex, question, messages, posted,
                   http, resp_json, exit_status, convVars>>

\* Lines 236-249: usage.get raises when "usage" is null.
PrintUsage ==
    /\ pc = "print_usage"
    /\ \/ /\ resp_json.usage = "null"
          /\ Exit(1, "stderr_traceback")
       \/ /\ resp_json.usage /= "null"
          /\ log' = Append(log, "print_usage")
          /\ pc' = "print_reasoning_meta"
          /\ UNCHANGED exit_status
    /\ UNCHANGED <<cmdline, environ, jsonl, args, ex, question, messages, posted,
                   http, resp_json, parsed, convVars>>

\* Lines 252-259: .get("message", {}).get raises when the message is null.
PrintReasoningMeta ==
    /\ pc = "print_reasoning_meta"
    /\ \/ /\ resp_json.choices = "one" /\ resp_json.message = "null"
          /\ Exit(1, "stderr_traceback")
       \/ /\ ~(resp_json.choices = "one" /\ resp_json.message = "null")
          /\ resp_json.echoed
          /\ log' = Append(log, "print_reasoning_meta")
          /\ pc' = "print_echo"
          /\ UNCHANGED exit_status
       \/ /\ ~(resp_json.choices = "one" /\ resp_json.message = "null")
          /\ ~resp_json.echoed
          /\ pc' = "print_echo"
          /\ UNCHANGED <<log, exit_status>>
    /\ UNCHANGED <<cmdline, environ, jsonl, args, ex, question, messages, posted,
                   http, resp_json, parsed, convVars>>

\* Lines 262-268, and main returns.
PrintEcho ==
    /\ pc = "print_echo"
    /\ Exit(0, "print_echo")
    /\ UNCHANGED <<cmdline, environ, jsonl, args, ex, question, messages, posted,
                   http, resp_json, parsed, convVars>>

Init ==
    /\ pc = "parse_args"
    /\ cmdline \in CmdLines
    /\ environ \in ApiKeys
    /\ jsonl \in JsonlFiles
    /\ MainIdle
    /\ ConvIdle

Next ==
    \/ ParseArgs
    \/ CheckKey
    \/ LoadQuestion
    \/ PickQuestion
    \/ BuildMessages
    \/ ShowPayload
    \/ SendRequest
    \/ HandleHTTPError
    \/ PrintRaw
    \/ ExtractAndPrint
    \/ PrintUsage
    \/ PrintReasoningMeta
    \/ PrintEcho

\* The test client, from its start.
Spec == Init /\ [][Next]_vars

\* ------------------------------------------------ the parser, on its own
\* extract_reasoning_and_answer applied to every body of Bodies.
ExtractInit ==
    /\ pc = "extract"
    /\ resp_json \in Bodies
    /\ cmdline = NoArgs
    /\ environ = Absent
    /\ jsonl = [exists |-> FALSE, lines |-> <<>>]
    /\ args = NoArgs
    /\ ex = NoRow
    /\ question = Absent
    /\ messages = <<>>
    /\ posted = <<>>
    /\ http = NoHttp
    /\ parsed = NoParsed
    /\ log = <<>>
    /\ exit_status = -1
    /\ ConvIdle

ExtractNext == ExtractAndPrint

SpecExtract == ExtractInit /\ [][ExtractNext]_vars

\* ------------------------------------------------------- the converter
\* Lines 6-9: open(OUT, "w") empties the file.
OpenOut ==
    /\ conv_pc = "open"
    /\ out_file' = <<>>
    /\ conv_pc' = "loop"
    /\ UNCHANGED <<ds, conv_i, mainVars>>

\* Lines 10-26: one turn of the loop.
WriteRow ==
    /\ conv_pc = "loop"
    /\ conv_i < Len(ds)
    /\ out_file' = Append(out_file, Dumps(RecordOf(ds[conv_i + 1])))
    /\ conv_i' = conv_i + 1
    /\ UNCHANGED <<ds, conv_pc, mainVars>>

\* The loop ends, the file is closed, line 35.
CloseOut ==
    /\ conv_pc = "loop"
    /\ conv_i = Len(ds)
    /\ conv_pc' = "done"
    /\ UNCHANGED <<ds, conv_i, out_file, mainVars>>

\* A line left in the file by an earlier run.
StaleLine == Dumps([messages |-> <<Message("user", <<"a">>)>>])

ConvInit ==
    /\ ds \in Datasets
    /\ out_file \in {<<>>, <<StaleLine>>}
    /\ conv_pc = "open"
    /\ conv_i = 0
    /\ pc = "idle"
    /\ cmdline = NoArgs
    /\ environ = Absent
    /\ jsonl = [exists |-> FALSE, lines |-> <<>>]
    /\ MainIdle

ConvNext ==
    \/ OpenOut
    \/ WriteRow
    \/ CloseOut

SpecConvert == ConvInit /\ [][ConvNext]_vars

\* =============================================================== properties
Last(q) == q[Len(q)]
Logged(event) == \E i \in 1..Len(log) : log[i] = event
AllWhitespace(s) == \A i \in 1..Len(s) : s[i] \in Whitespace

\* r is s without its surrounding whitespace, stated without Strip: r is a
\* slice of s, what is cut off in front and behind is whitespace, and r
\* neither starts nor ends with whitespace.
IsStripOf(r, s) ==
    /\ \E i \in 0..Len(s) : \E j \in 0..(Len(s) - i) :
          /\ r = SubSeq(s, i + 1, Len(s) - j)
          /\ AllWhitespace(SubSeq(s, 1, i))
          /\ AllWhitespace(SubSeq(s, Len(s) - j + 1, Len(s)))
    /\ r /= <<>> => (r[1] \notin Whitespace /\ r[Len(r)] \notin Whitespace)

\* ---- the parser (SpecExtract)
Extracted == pc = "print_usage"

HasFirstMessage(resp) == resp.choices = "one" /\ resp.message = "obj"

\* The three sources of the reasoning trace, as texts ("" when absent).
Source1(resp) ==
    IF HasFirstMessage(resp) /\ Truthy(resp.reasoning) THEN PyStr(resp.reasoning) ELSE <<>>
Source2(resp) ==
    IF HasFirstMessage(resp) THEN join_reasoning_details(resp.msg_details) ELSE <<>>
Source3(resp) == join_reasoning_details(resp.top_details)

FirstNonEmptySource(resp) ==
    IF Source1(resp) /= <<>> THEN Source1(resp)
    ELSE IF Source2(resp) /= <<>> THEN Source2(resp)
    ELSE Source3(resp)

\* C1 as stated: for every response body the trace returned is the first
\* non-empty of message.reasoning, the joined message reasoning_details and the
\* joined top-level reasoning_details.
C1_EveryBody ==
    Extracted => parsed.thinking = FirstNonEmptySource(resp_json)

\* C1, amended: for every response body with a first choice the trace returned
\* is the first non-empty of the three sources, message.reasoning before either
\* reasoning_details; for a body with no choices it is "" whatever the top-level
\* reasoning_details holds.
C1_FirstNonEmptySource ==
    Extracted =>
        parsed.thinking =
            IF resp_json.choices = "one" THEN FirstNonEmptySource(resp_json) ELSE <<>>

\* message.reasoning and both reasoning_details are non-empty and differ, and
\* message.reasoning was returned.
C1_Witness ==
    /\ Extracted
    /\ resp_json.choices = "one"
    /\ Source1(resp_json) /= <<>>
    /\ Source2(resp_json) /= <<>>
    /\ Source3(resp_json) /= <<>>
    /\ Source1(resp_json) /= Source2(resp_json)
    /\ parsed.thinking = Source1(resp_json)

NoKey(v) == v.kind \in {"absent", "null"}

NoReasoningSource(resp) ==
    /\ NoKey(resp.reasoning)
    /\ NoKey(resp.msg_details)
    /\ NoKey(resp.top_details)

\* C4: a body with no reasoning source (no message.reasoning, no
\* message.reasoning_details, no top-level reasoning_details; choices present,
\* empty or missing) gives the empty string as the trace.
C4_NoSourceEmptyTrace ==
    (Extracted /\ NoReasoningSource(resp_json)) => parsed.thinking = <<>>

\* A body with a first message, an answer and no reasoning source was parsed.
C4_Witness ==
    /\ Extracted
    /\ NoReasoningSource(resp_json)
    /\ HasFirstMessage(resp_json)
    /\ parsed.attempt /= <<>>
    /\ parsed.thinking = <<>>

\* ---- the converter (SpecConvert)
\* A string of a line of the file read back: the escapes of json.dumps undone.
RECURSIVE Unescape(_)
Unescape(s) ==
    IF s = <<>> THEN <<>>
    ELSE IF Head(s) = "\\" /\ Len(s) >= 2
         THEN <<(CASE s[2] = "n" -> "\n" [] s[2] = "t" -> "\t" [] OTHER -> s[2])>>
                  \o Unescape(SubSeq(s, 3, Len(s)))
         ELSE <<Head(s)>> \o Unescape(Tail(s))

\* The record read back from line i of the output file.
RecordAt(i) ==
    [k \in 1..Len(out_file[i].messages) |->
        Message(out_file[i].messages[k].role,
                Unescape(out_file[i].messages[k].content))]

ThinkOf(i) ==
    LET m == RecordAt(i)
    IN (CHOOSE k \in 1..Len(m) : m[k].role = "think" /\
            \A h \in 1..Len(m) : m[h].role = "think" => h = k)

HasTrajectory(row) ==
    row.thinking_trajectories.kind = "list" /\ row.thinking_trajectories.items /= <<>>

Written == conv_pc \in {"loop", "done"}

\* C5: the think field of the record of a row is the first element of
\* thinking_trajectories without its surrounding whitespace when the list is
\* non-empty, and "" when it is empty or absent.
C5_ThinkIsFirstTrajectoryStripped ==
    Written =>
        \A i \in 1..Len(out_file) :
            LET think == RecordAt(i)[ThinkOf(i)].content
            IN IF HasTrajectory(ds[i])
               THEN IsStripOf(think, ds[i].thinking_trajectories.items[1])
               ELSE think = <<>>

\* Two rows were converted: one whose first trajectory has whitespace around
\* it and a different second trajectory, one with no trajectory.
C5_Witness ==
    /\ conv_pc = "done"
    /\ \E i \in 1..Len(out_file) :
          /\ HasTrajectory(ds[i])
          /\ Len(ds[i].thinking_trajectories.items) = 2
          /\ RecordAt(i)[2].content /= ds[i].thinking_trajectories.items[1]
          /\ RecordAt(i)[2].content /= <<>>
    /\ \E i \in 1..Len(out_file) :
          /\ ~HasTrajectory(ds[i])
          /\ RecordAt(i)[2].content = <<>>

HasRawLineBreak(line) ==
    \E k \in 1..Len(line.messages) :
        \E c \in 1..Len(line.messages[k].content) : line.messages[k].content[c] = "\n"

\* C6: while and after the rows are processed the file holds one record per row
\* processed, in input order (all rows once the converter is done), each on a
\* line of its own, and every record has exactly the messages user, think,
\* answer, in this order.
C6_OneRecordPerRow ==
    Written =>
        /\ Len(out_file) = conv_i
        /\ conv_pc = "done" => Len(out_file) = Len(ds)
        /\ \A i \in 1..Len(out_file) :
              /\ ~HasRawLineBreak(out_file[i])
              /\ Len(RecordAt(i)) = 3
              /\ RecordAt(i)[1].role = "user"
              /\ RecordAt(i)[2].role = "think"
              /\ RecordAt(i)[3].role = "answer"
              /\ IsStripOf(RecordAt(i)[1].content, ds[i].question)
              /\ IsStripOf(RecordAt(i)[3].content, PyStr(ds[i].attempt))

\* Two rows with different questions were converted, the first with a line
\* break inside its trace.
C6_Witness ==
    /\ conv_pc = "done"
    /\ Len(ds) = 2
    /\ ds[1].question /= ds[2].question
    /\ Len(out_file) = 2
    /\ RecordAt(1)[1].content /= RecordAt(2)[1].content
    /\ \E c \in 1..Len(RecordAt(1)[2].content) : RecordAt(1)[2].content[c] = "\n"

\* ---- the client (Spec)
Exited == pc = "exited"
Sent == posted /= <<>>

KeyMissing == ~Truthy(environ)

\* The question in the user message of the request sent.
SentQuestion == SubSeq(posted[1][2].content, 3, Len(posted[1][2].content))

ExplicitQuestion == Truthy(cmdline.question)
FromJsonl == ~ExplicitQuestion /\ Truthy(cmdline.from_jsonl)
IndexInRange == cmdline.index >= 0 /\ cmdline.index < Len(jsonl.lines)
RowChosen == jsonl.lines[cmdline.index + 1]

\* The question cannot be had from the JSONL file.
JsonlUnusable ==
    FromJsonl /\
        (\/ ~jsonl.exists
         \/ ~IndexInRange
         \/ ~RowChosen.valid
         \/ (~Truthy(RowChosen.question) /\ ~Truthy(RowChosen.prompt)))

IsError(st) == st >= 400 /\ st <= 599
Is2xx(st) == st >= 200 /\ st <= 299

\* The request was sent and did not give a parsed body.
RequestFailed ==
    \/ http.kind = "no_response"
    \/ http.kind = "response" /\ (IsError(http.status) \/ ~http.is_json)

\* The body makes one of the prints after the request raise.
PrintRaises ==
    /\ http.kind = "response"
    /\ \/ http.body.usage = "null"
       \/ http.body.choices = "one" /\ http.body.message = "null"

\* C2 as stated, read in its favour (runs whose arguments parse; an empty key
\* counted as unset; any request that gives no parsed body counted as failed):
\* 2 if the key is unset, 1 if the HTTP request fails, 0 in every other case.
C2_ThreeStatuses ==
    (Exited /\ cmdline.parse = "ok") =>
        exit_status =
            IF KeyMissing THEN 2
            ELSE IF Sent /\ RequestFailed THEN 1
            ELSE 0

\* C2, amended: a run whose arguments parse ends with status 2 if the key is
\* unset or empty; with 1 if the question cannot be had (file missing, index
\* out of range, unparsable row, row without question and prompt), if the
\* request fails (no response, a 4xx or 5xx status, a body that is not JSON)
\* or if printing the response raises (usage null, or the first choice's
\* message null); and with 0 otherwise. A run whose arguments do not parse
\* ends with 2, a --help run with 0.
C2_ExitStatus ==
    Exited =>
        exit_status =
            CASE cmdline.parse = "usage_error" -> 2
              [] cmdline.parse = "help" -> 0
              [] OTHER ->
                  IF KeyMissing THEN 2
                  ELSE IF JsonlUnusable \/ RequestFailed \/ PrintRaises THEN 1
                  ELSE 0

\* A run with the key set ended with 1 before any request, on a missing file.
C2_Witness ==
    /\ Exited
    /\ ~KeyMissing
    /\ ~jsonl.exists
    /\ ~Sent
    /\ exit_status = 1

\* What C3 says follows a failed status: nothing was returned or parsed, the
\* response is never printed, and the run ends non-zero after an error print
\* (that of the except clause, or the traceback of another exception).
FailureSignalled ==
    /\ resp_json = NoBody
    /\ parsed = NoParsed
    /\ ~Logged("print_raw")
    /\ ~Logged("print_parsed")
    /\ Exited =>
          /\ exit_status /= 0
          /\ Last(log) \in {"stderr_http_error", "stderr_traceback"}

\* C3 as stated: a response with a non-2xx status makes call_openrouter raise,
\* and main prints the error, skips the parsing and exits non-zero.
C3_Non2xxRaises ==
    (http.kind = "response" /\ ~Is2xx(http.status)) => FailureSignalled

\* C3, amended: a response with a 4xx or 5xx status makes call_openrouter
\* raise HTTPError, and main runs the except clause next, prints the error,
\* skips the parsing and exits with status 1 (a 3xx status that requests hands
\* back is not raised for).
C3_ErrorStatusRaises ==
    (http.kind = "response" /\ IsError(http.status)) =>
        /\ FailureSignalled
        /\ call_openrouter(http).result = "HTTPError"
        /\ pc \in {"http_error", "exited"}
        /\ Exited => (exit_status = 1 /\ Last(log) = "stderr_http_error")

\* A 404 with a JSON body ended the run with status 1 after the error print.
C3_Witness ==
    /\ Exited
    /\ http.kind = "response"
    /\ http.status = 404
    /\ http.is_json
    /\ exit_status = 1
    /\ Last(log) = "stderr_http_error"

\* C7: with the question to be read from the JSONL file, a missing file or an
\* index out of range (negative, or not below the number of lines) ends the
\* process with a message, at the latest in load_question, and no request is
\* sent.
C7_BadJsonlStopsBeforeRequest ==
    (cmdline.parse = "ok" /\ FromJsonl /\ (~jsonl.exists \/ ~IndexInRange)) =>
        /\ ~Sent
        /\ ~Logged("http_post")
        /\ pc \in {"parse_args", "check_key", "load_question", "exited"}
        /\ Exited =>
              /\ exit_status /= 0
              /\ Last(log) \in {"stderr_missing_key", "stderr_exit_message"}

\* With the key set, a file of one line and --index 1 ended the run with a
\* message after the file was opened.
C7_Witness ==
    /\ Exited
    /\ ~KeyMissing
    /\ FromJsonl
    /\ jsonl.exists
    /\ Len(jsonl.lines) = 1
    /\ cmdline.index = 1
    /\ log = <<"open_jsonl", "stderr_exit_message">>

FailureEvents ==
    {"stderr_usage", "stderr_missing_key", "stderr_exit_message",
     "stderr_traceback", "stderr_http_error"}

\* C8: at most one request is sent, a failure is the last thing a run does (the
\* except clause runs right after the failed POST and nothing after it), and a
\* run ends non-zero exactly on a failure.
C8_OneRequestFailuresFatal ==
    /\ Len(posted) <= 1
    /\ Cardinality({i \in 1..Len(log) : log[i] = "http_post"}) = Len(posted)
    /\ \A i \in 1..Len(log) :
          log[i] \in FailureEvents =>
              (i = Len(log) /\ Exited /\ exit_status /= 0)
    /\ pc = "http_error" => Last(log) = "http_post"
    /\ (Exited /\ exit_status /= 0) => Last(log) \in FailureEvents

\* A request was sent once, failed with an HTTP error, and the run ended.
C8_Witness ==
    /\ Exited
    /\ Len(posted) = 1
    /\ IsError(http.status)
    /\ Last(log) = "stderr_http_error"
    /\ exit_status = 1

\* C9: the question sent is the explicit --question when that is non-empty, and
\* the file is then never opened; otherwise, with a JSONL path, it is the
\* question field, else the prompt field, of the row at --index; it is the
\* built-in default exactly when neither is given; and a row without question
\* and prompt stops the run before a request is built or sent.
C9_QuestionPriority ==
    /\ ExplicitQuestion =>
          /\ ~Logged("open_jsonl")
          /\ Sent => SentQuestion = cmdline.question.s
    /\ (FromJsonl /\ Sent) =>
          /\ jsonl.exists /\ IndexInRange /\ RowChosen.valid
          /\ Logged("open_jsonl")
          /\ SentQuestion =
                IF Truthy(RowChosen.question)
                THEN PyStr(RowChosen.question)
                ELSE PyStr(RowChosen.prompt)
    /\ Sent =>
          (SentQuestion = DefaultQuestion <=>
              (~ExplicitQuestion /\ ~Truthy(cmdline.from_jsonl)))
    /\ (FromJsonl /\ JsonlUnusable) =>
          /\ messages = <<>>
          /\ ~Sent
          /\ ~Logged("print_sending")

\* The row's question field was empty and its prompt was sent.
C9_Witness ==
    /\ Sent
    /\ FromJsonl
    /\ IndexInRange
    /\ ~Truthy(RowChosen.question)
    /\ SentQuestion = PyStr(RowChosen.prompt)
    /\ SentQuestion /= DefaultQuestion

\* C10: with the key unset or empty, the first thing main does after parsing
\* its arguments is to write the message to stderr and exit non-zero: the file
\* is not opened, no payload is printed and no request is sent.
C10_KeyCheckedFirst ==
    (cmdline.parse = "ok" /\ KeyMissing) =>
        /\ ~Logged("open_jsonl")
        /\ ~Logged("print_payload")
        /\ ~Sent
        /\ pc \in {"parse_args", "check_key", "exited"}
        /\ Exited => (log = <<"stderr_missing_key">> /\ exit_status /= 0)

\* With an empty key, a readable file and --show-payload, the run ended with
\* nothing but the message.
C10_Witness ==
    /\ Exited
    /\ environ = StrVal(<<>>)
    /\ FromJsonl /\ jsonl.exists /\ IndexInRange
    /\ cmdline.show_payload
    /\ log = <<"stderr_missing_key">>
    /\ exit_status = 2

====
